---- MODULE Spec2Model ----
(***************************************************************************)
(* Model of the quiz generator (src/quiz_deep.py and src/app.py).          *)
(*                                                                         *)
(* Text is a sequence of tokens.  A token is one piece of a Python string: *)
(* "\n" and " " are the newline and the blank, "3" is a digit, ":" and "-" *)
(* are themselves, "Question" and "Correct Answer:" are those literal      *)
(* words, and every other token ("L1", "a) Red", ...) is an opaque run of  *)
(* characters that contains no newline, no label and no marker and neither *)
(* starts nor ends with whitespace.  The Python string a sequence stands   *)
(* for is the concatenation of its tokens.                                 *)
(***************************************************************************)
EXTENDS Integers, Sequences, FiniteSets, TLC

NL == "\n"
SP == " "
Whitespace == {SP, NL}
Digits == {"0", "1", "2", "3", "4", "5", "6", "7", "8", "9"}

-----------------------------------------------------------------------------
(* Python string primitives, on token sequences.                           *)

Drop(s, n) == SubSeq(s, n + 1, Len(s))

StartsWith(s, p) == Len(s) >= Len(p) /\ SubSeq(s, 1, Len(p)) = p

RECURSIVE lstrip(_)
lstrip(s) ==
    IF s # <<>> /\ Head(s) \in Whitespace THEN lstrip(Tail(s)) ELSE s

RECURSIVE rstrip(_)
rstrip(s) ==
    IF s # <<>> /\ s[Len(s)] \in Whitespace
    THEN rstrip(SubSeq(s, 1, Len(s) - 1))
    ELSE s

\* str.strip()
strip(s) == rstrip(lstrip(s))

\* str.split(sep): cut at every occurrence of sep, found left to right
\* without overlap; always yields at least one piece.
RECURSIVE SplitFrom(_, _, _, _)
SplitFrom(s, sep, cur, acc) ==
    IF s = <<>> THEN Append(acc, cur)
    ELSE IF StartsWith(s, sep)
         THEN SplitFrom(Drop(s, Len(sep)), sep, <<>>, Append(acc, cur))
         ELSE SplitFrom(Tail(s), sep, Append(cur, Head(s)), acc)

split(s, sep) == SplitFrom(s, sep, <<>>, <<>>)

\* str.replace(old, ""): delete every occurrence of old, found left to
\* right without overlap; the result is not scanned again.
RECURSIVE remove(_, _)
remove(s, old) ==
    IF s = <<>> THEN <<>>
    ELSE IF StartsWith(s, old) THEN remove(Drop(s, Len(old)), old)
         ELSE <<Head(s)>> \o remove(Tail(s), old)

\* Length of the longest prefix of s whose tokens all lie in S.
RECURSIVE Span(_, _)
Span(s, S) ==
    IF s # <<>> /\ Head(s) \in S THEN 1 + Span(Tail(s), S) ELSE 0

\* re.sub(r"^(Question\s*\d+:?)\s*", "", line)
re_sub_marker(line) ==
    IF line = <<>> \/ Head(line) # "Question" THEN line
    ELSE LET a == Tail(line)
             b == Drop(a, Span(a, Whitespace))
             nd == Span(b, Digits)
             c == Drop(b, nd)
             d == IF c # <<>> /\ Head(c) = ":" THEN Tail(c) ELSE c
         IN  IF nd = 0 THEN line ELSE Drop(d, Span(d, Whitespace))

CorrectAnswerLabel == <<"Correct Answer:", SP>>
Bullet == <<"-", SP>>
BlankLine == <<NL, NL>>

\* The padding loop with the limit 3.
RECURSIVE PadOptions_three(_)
PadOptions_three(options) ==
    IF Len(options) < 3 THEN PadOptions_three(Append(options, <<>>))
    ELSE options

\* while len(options) < 4: options.append("")
RECURSIVE PadOptions(_)
PadOptions(options) ==
    IF Len(options) < 4 THEN PadOptions(Append(options, <<>>)) ELSE options

\* [opt.strip() for opt in options]
StripAll(options) == [k \in 1..Len(options) |-> strip(options[k])]

-----------------------------------------------------------------------------
(* src/quiz_deep.py                                                        *)

\* The record format_quiz builds from the lines of one block.
record_deep(lines) ==
    [question |-> strip(re_sub_marker(lines[1])),
     options |-> StripAll(PadOptions(SubSeq(lines, 2, Len(lines) - 1))),
     correct_answer |-> strip(remove(lines[Len(lines)], CorrectAnswerLabel))]

\* The length test with other limits.
too_short_two(lines) == Len(lines) < 2

too_short_wide(lines) == Len(lines) < 3 \/ Len(lines) > 6

\* if len(lines) < 3: continue
too_short(lines) == Len(lines) < 3

\* The for loop of format_quiz over the blocks still to visit.
RECURSIVE loop_deep(_, _)
loop_deep(questions, quiz_data) ==
    IF questions = <<>> THEN quiz_data
    ELSE LET lines == split(Head(questions), <<NL>>)
         IN  IF too_short(lines)
             THEN loop_deep(Tail(questions), quiz_data)
             ELSE loop_deep(Tail(questions),
                            Append(quiz_data, record_deep(lines)))

questions_deep(quiz_text) == split(strip(quiz_text), BlankLine)

format_quiz_deep(quiz_text) == loop_deep(questions_deep(quiz_text), <<>>)

-----------------------------------------------------------------------------
(* src/app.py                                                              *)

record_app(lines) ==
    [question |-> remove(lines[1], Bullet),
     options |-> StripAll(PadOptions(SubSeq(lines, 2, Len(lines) - 1))),
     correct_answer |-> strip(remove(lines[Len(lines)], CorrectAnswerLabel))]

RECURSIVE loop_app(_, _)
loop_app(questions, quiz_data) ==
    IF questions = <<>> THEN quiz_data
    ELSE LET question == Head(questions)
             lines == split(question, <<NL>>)
         IN  IF strip(question) = <<>> \/ too_short(lines)
             THEN loop_app(Tail(questions), quiz_data)
             ELSE loop_app(Tail(questions),
                           Append(quiz_data, record_app(lines)))

questions_app(quiz_text) == split(quiz_text, BlankLine)

format_quiz_app(quiz_text) == loop_app(questions_app(quiz_text), <<>>)

-----------------------------------------------------------------------------
(* The replies the parser is run on.                                       *)

MaxLines == 7
MaxNL == 3
MaxRaw == 7
MaxStem == 3
MaxAnswer == 4

\* All token sequences of length at most n over the alphabet A.
SeqsUpTo(A, n) == UNION {[1..k -> A] : k \in 0..n}

RECURSIVE Newlines(_)
Newlines(n) == IF n = 0 THEN <<>> ELSE <<NL>> \o Newlines(n - 1)

LineNames ==
    <<"L1", "L2", "L3", "L4", "L5", "L6", "L7", "L8", "L9", "L10", "L11",
      "L12">>

\* Lines L1 .. Lk, line i + 1 following line i after gaps[i] newlines.
RECURSIVE Layout(_, _, _)
Layout(k, gaps, i) ==
    IF i = k THEN <<LineNames[i]>>
    ELSE <<LineNames[i]>> \o Newlines(gaps[i]) \o Layout(k, gaps, i + 1)

BlockInputs ==
    UNION {{Layout(k, gaps, 1) : gaps \in [1..(k - 1) -> 1..MaxNL]} :
               k \in 1..MaxLines}

RawInputs == SeqsUpTo({NL, SP, "a"}, MaxRaw)

Markers ==
    {<<>>, <<"Question", SP, "3", ":", SP>>, <<"Question", "3", "1", ":">>,
     <<"Question", SP, "3", SP>>, <<"Question", ":", SP>>,
     <<"3", ":", SP>>, <<"-", SP>>, <<SP, "Question", SP, "3", ":", SP>>,
     <<"-", SP, "Question", SP, "3", ":", SP>>}

StemInputs ==
    {m \o x \o <<NL, "a) 3", NL, "Correct Answer:", SP, "b) 4">> :
         m \in Markers,
         x \in SeqsUpTo({"Question", SP, "3", ":", "-", "x"}, MaxStem)}

AnswerInputs ==
    {<<"3", ":", SP, "x", NL, "a) 3", NL>> \o y :
         y \in SeqsUpTo({"Correct Answer:", SP, "x"}, MaxAnswer)}

\* The reply of the specification's end-to-end scenario.
ExampleReply ==
    <<"1", ":", SP, "What color is the sky?", NL,
      "a) Red", NL, "b) Blue", NL, "c) Green", NL, "d) Yellow", NL,
      "Correct Answer:", SP, "b) Blue", NL, NL,
      "2", ":", SP, "What is the capital of France?", NL,
      "a) Berlin", NL, "b) Madrid", NL, "c) Paris", NL, "d) Rome", NL,
      "Correct Answer:", SP, "c) Paris">>

\* The same two questions with no blank line between them.
MergedReply ==
    <<"1", ":", SP, "What color is the sky?", NL,
      "a) Red", NL, "b) Blue", NL, "c) Green", NL, "d) Yellow", NL,
      "Correct Answer:", SP, "b) Blue", NL,
      "2", ":", SP, "What is the capital of France?", NL,
      "a) Berlin", NL, "b) Madrid", NL, "c) Paris", NL, "d) Rome", NL,
      "Correct Answer:", SP, "c) Paris">>

Inputs ==
    BlockInputs \cup RawInputs \cup StemInputs \cup AnswerInputs
        \cup {ExampleReply, MergedReply}

-----------------------------------------------------------------------------------------------------------------------------------------------------
(* State.                                                                  *)
(*   file            the script that runs: "quiz_deep.py" or "app.py"      *)
(*   pc              "start"/"done" for a run of format_quiz alone;        *)
(*                   "idle"/"render"/"results" for the position of the     *)
(*                   script run that a click has started                   *)
(*   loop_i          the question that the rendering loop is at            *)
(*   quiz_text       the text handed to format_quiz                        *)
(*   records         what format_quiz returned (the handler's local        *)
(*                   quiz_data)                                            *)
(*   quiz_data       st.session_state.quiz_data: <<>> when None or absent, *)
(*                   <<list>> when a list is stored                        *)
(*   user_answers    quiz_deep.py: st.session_state.user_answers; app.py:  *)
(*                   the list the last run built.  Question i of the code  *)
(*                   is key i + 1 here.                                    *)
(*   quiz_submitted  st.session_state.quiz_submitted                       *)
(*   widget          the radio widgets' state: for the keys the user has   *)
(*                   picked in, the position of the picked option          *)
(*   submit_clicked  st.button("Submit Answers") is true in this run       *)
(*   backend         how the last call of the generation backend ended     *)
(*   shown           the messages of st.error / st.success in this run     *)
(*   score, results  the score <<correct_count, total>> and the verdict    *)
(*                   per question displayed in this run; <<>> when none    *)
(*   crashed         some run ended in an uncaught exception               *)

VARIABLES file, pc, quiz_text, records, quiz_data, user_answers,
          quiz_submitted, widget, submit_clicked, backend, shown, score,
          results, crashed, loop_i

parser_vars == <<quiz_text, records>>
session_vars == <<quiz_data, user_answers, quiz_submitted>>
ui_vars ==
    <<quiz_data, user_answers, quiz_submitted, widget, submit_clicked,
      backend, shown, score, results, crashed, loop_i>>
vars == <<file, pc, parser_vars, ui_vars>>

Files == {"quiz_deep.py", "app.py"}

None == <<>>
Some(x) == <<x>>

\* quiz_deep.py lines 117-123; app.py starts with an empty session state.
SessionInit ==
    /\ quiz_data = None
    /\ user_answers = <<>>
    /\ quiz_submitted = FALSE
    /\ widget = <<>>
    /\ submit_clicked = FALSE
    /\ loop_i = 1
    /\ backend = "none"
    /\ shown = {}
    /\ score = <<>>
    /\ results = <<>>
    /\ crashed = FALSE

-----------------------------------------------------------------------------
(* format_quiz run on one reply.                                           *)

Init ==
    /\ file \in Files
    /\ pc = "start"
    /\ quiz_text \in Inputs
    /\ records = <<>>
    /\ SessionInit

FormatQuizDeep ==
    /\ file = "quiz_deep.py" /\ pc = "start"
    /\ records' = format_quiz_deep(quiz_text)
    /\ pc' = "done"
    /\ UNCHANGED <<file, quiz_text, ui_vars>>

FormatQuizApp ==
    /\ file = "app.py" /\ pc = "start"
    /\ records' = format_quiz_app(quiz_text)
    /\ pc' = "done"
    /\ UNCHANGED <<file, quiz_text, ui_vars>>

Next == FormatQuizDeep \/ FormatQuizApp

Spec == Init /\ [][Next]_vars

-----------------------------------------------------------------------------------------------------------------------------------------------------
(* The page.  A click starts a run of the script from its top; a click     *)
(* that arrives while a run is under way ends that run where it is.        *)

\* What the backend may answer: the example's two questions, one question
\* with two options, and a reply with no question in it.
SmallReply ==
    <<"Question", SP, "1", ":", SP, "Is the sky blue?", NL,
      SP, SP, "a) Yes", NL, SP, SP, "b) No", NL,
      "Correct Answer:", SP, "a) Yes">>

NoQuizReply == <<"Sorry, no quiz.">>

Replies == {ExampleReply, SmallReply, NoQuizReply}

Outcomes == {[ok |-> TRUE, text |-> r] : r \in Replies}
                \cup {[ok |-> FALSE, text |-> <<>>]}

\* format_quiz of each text the handlers can hand to it.
parsed_deep == [t \in Replies \cup {<<>>} |-> format_quiz_deep(t)]

parsed_app == [t \in Replies |-> format_quiz_app(t)]

AIError == "AI Quiz Generation Error"
InvalidQuiz == "Failed to generate a valid quiz. Please try again."
Success == "Quiz generated successfully"
ErrorOccurred == "An error occurred"

Stored == quiz_data # None
TheQuiz == quiz_data[1]

Range(f) == {f[x] : x \in DOMAIN f}

OnPage == pc \in {"idle", "render", "results"}

\* The widget state once quiz is stored: that of new widgets, or the old
\* positions that exist in the question now under the same key.
WidgetsAfter(quiz) ==
    {<<>>,
     [i \in {k \in DOMAIN widget : k <= Len(quiz)
                 /\ widget[k] <= Len(quiz[k].options)} |-> widget[i]]}

\* if not quiz_data, never taken.
is_empty_never(qd) == FALSE

\* if not quiz_data
is_empty(qd) == qd = <<>>

\* quiz_deep.py generate_quiz: the reply, or "" after the error message.
generate_quiz_deep(outcome) ==
    IF outcome.ok THEN [text |-> outcome.text, shown |-> {}]
    ELSE [text |-> <<>>, shown |-> {AIError}]

\* quiz_deep.py lines 160-162, without the reset of the answers.
store_quiz_deep_stale(qd) ==
    [quiz_data |-> Some(qd), user_answers |-> user_answers,
     quiz_submitted |-> FALSE]

\* quiz_deep.py lines 160-162.
store_quiz_deep(qd) ==
    [quiz_data |-> Some(qd), user_answers |-> <<>>,
     quiz_submitted |-> FALSE]

\* A new run starts: nothing is displayed yet.
NewRun ==
    /\ pc' = "render"
    /\ loop_i' = 1
    /\ score' = <<>> /\ results' = <<>>

\* quiz_deep.py lines 151-165: the run that the Generate Quiz click starts.
DeepGenerate ==
    /\ file = "quiz_deep.py" /\ OnPage
    /\ \E outcome \in Outcomes :
           LET got == generate_quiz_deep(outcome)
               qd == parsed_deep[got.text]
           IN  /\ backend' = IF outcome.ok THEN "ok" ELSE "failed"
               /\ quiz_text' = got.text
               /\ records' = qd
               /\ IF is_empty(qd)
                  THEN /\ shown' = got.shown \cup {InvalidQuiz}
                       /\ UNCHANGED <<session_vars, widget>>
                  ELSE /\ shown' = got.shown \cup {Success}
                       /\ quiz_data' = store_quiz_deep(qd).quiz_data
                       /\ user_answers' = store_quiz_deep(qd).user_answers
                       /\ quiz_submitted' = store_quiz_deep(qd).quiz_submitted
                       /\ widget' \in WidgetsAfter(qd)
    /\ NewRun
    /\ submit_clicked' = FALSE
    /\ UNCHANGED <<file, crashed>>

\* app.py lines 123-134: generate_quiz raises when the backend fails, and
\* the handler's except branch reports it.
AppGenerate ==
    /\ file = "app.py" /\ OnPage
    /\ \E outcome \in Outcomes :
           /\ backend' = IF outcome.ok THEN "ok" ELSE "failed"
           /\ IF ~outcome.ok
              THEN /\ shown' = {ErrorOccurred}
                   /\ UNCHANGED <<quiz_text, records, quiz_data, widget>>
              ELSE LET qd == parsed_app[outcome.text]
                   IN  /\ quiz_text' = outcome.text
                       /\ records' = qd
                       /\ IF is_empty(qd)
                          THEN /\ shown' = {InvalidQuiz}
                               /\ UNCHANGED <<quiz_data, widget>>
                          ELSE /\ shown' = {Success}
                               /\ quiz_data' = Some(qd)
                               /\ widget' \in WidgetsAfter(qd)
    /\ NewRun
    /\ submit_clicked' = FALSE
    /\ UNCHANGED <<file, user_answers, quiz_submitted, crashed>>

\* The user picks the option at position o of question i of the quiz.
Select ==
    /\ OnPage /\ Stored
    /\ \E i \in 1..Len(TheQuiz) : \E o \in 1..Len(TheQuiz[i].options) :
           widget' = [k \in DOMAIN widget \cup {i} |->
                          IF k = i THEN o ELSE widget[k]]
    /\ NewRun
    /\ submit_clicked' = FALSE
    /\ shown' = {}
    /\ UNCHANGED <<file, parser_vars, session_vars, backend, crashed>>

\* The user clicks Submit Answers, which is on the page with a quiz.
Submit ==
    /\ OnPage /\ Stored
    /\ NewRun
    /\ submit_clicked' = TRUE
    /\ shown' = {}
    /\ UNCHANGED <<file, parser_vars, session_vars, widget, backend, crashed>>

\* What st.radio returns for key i: the option at the picked position,
\* else the option at the index it was given.
radio(i, default) ==
    IF i \in DOMAIN widget THEN TheQuiz[i].options[widget[i]] ELSE default

\* quiz_deep.py line 178: the option whose index is passed to st.radio.
index_option(i) ==
    IF i \in DOMAIN user_answers THEN user_answers[i]
    ELSE TheQuiz[i].options[1]

\* options.index(x) raises ValueError when x is not an option.
IndexRaises(i) == index_option(i) \notin Range(TheQuiz[i].options)

\* if st.session_state.quiz_data
Truthy == Stored /\ TheQuiz # <<>>

\* quiz_deep.py lines 170-181: one round of the loop over the questions.
DeepRenderQuestion ==
    /\ file = "quiz_deep.py" /\ pc = "render"
    /\ Truthy /\ loop_i <= Len(TheQuiz)
    /\ IF IndexRaises(loop_i)
       THEN /\ crashed' = TRUE
            /\ pc' = "idle"
            /\ loop_i' = 1
            /\ UNCHANGED user_answers
       ELSE /\ user_answers' =
                   [k \in DOMAIN user_answers \cup {loop_i} |->
                        IF k = loop_i
                        THEN radio(loop_i, index_option(loop_i))
                        ELSE user_answers[k]]
            /\ loop_i' = loop_i + 1
            /\ UNCHANGED <<pc, crashed>>
    /\ UNCHANGED <<file, parser_vars, quiz_data, quiz_submitted, widget,
                   submit_clicked, backend, shown, score, results>>

\* quiz_deep.py lines 167, 184-185: no quiz to render, or the Submit
\* Answers button after the loop.
DeepRenderEnd ==
    /\ file = "quiz_deep.py" /\ pc = "render"
    /\ IF Truthy THEN loop_i > Len(TheQuiz) ELSE TRUE
    /\ quiz_submitted' = (quiz_submitted \/ (Truthy /\ submit_clicked))
    /\ pc' = "results"
    /\ loop_i' = 1
    /\ UNCHANGED <<file, parser_vars, quiz_data, user_answers, widget,
                   submit_clicked, backend, shown, score, results, crashed>>

RECURSIVE count_from(_, _, _)
count_from(quiz, answers, i) ==
    IF i > Len(quiz) THEN 0
    ELSE (IF answers[i] = quiz[i].correct_answer THEN 1 ELSE 0)
             + count_from(quiz, answers, i + 1)

\* The count with the first question left out.
correct_count_skip(quiz, answers) == count_from(quiz, answers, 2)

\* sum(1 for i, q in enumerate(quiz) if answers[i] == q['correct_answer'])
correct_count(quiz, answers) == count_from(quiz, answers, 1)

\* quiz_deep.py lines 188-190.
DeepResults ==
    /\ file = "quiz_deep.py" /\ pc = "results"
    /\ IF quiz_submitted
       THEN IF Stored /\ 1..Len(TheQuiz) \subseteq DOMAIN user_answers
            THEN /\ score' = <<correct_count(TheQuiz, user_answers),
                               Len(TheQuiz)>>
                 /\ UNCHANGED crashed
            ELSE crashed' = TRUE /\ UNCHANGED score
       ELSE UNCHANGED <<score, crashed>>
    /\ pc' = "idle"
    /\ submit_clicked' = FALSE
    /\ UNCHANGED <<file, parser_vars, session_vars, widget, backend, shown,
                   results, loop_i>>

\* app.py lines 136-161: the radios, then the Submit Answers handler.
AppRender ==
    /\ file = "app.py" /\ pc = "render"
    /\ IF Stored
       THEN LET answers == [i \in 1..Len(TheQuiz) |->
                                radio(i, TheQuiz[i].options[1])]
            IN  /\ user_answers' = answers
                /\ IF submit_clicked
                   THEN /\ score' = <<correct_count(TheQuiz, answers),
                                      Len(TheQuiz)>>
                        /\ results' =
                               [i \in 1..Len(TheQuiz) |->
                                    answers[i] = TheQuiz[i].correct_answer]
                   ELSE UNCHANGED <<score, results>>
       ELSE UNCHANGED <<user_answers, score, results>>
    /\ pc' = "idle"
    /\ submit_clicked' = FALSE
    /\ UNCHANGED <<file, parser_vars, quiz_data, quiz_submitted, widget,
                   backend, shown, crashed, loop_i>>

InitUI ==
    /\ file \in Files
    /\ pc = "idle"
    /\ quiz_text = <<>>
    /\ records = <<>>
    /\ SessionInit

NextUI ==
    \/ DeepGenerate \/ AppGenerate
    \/ Select \/ Submit
    \/ DeepRenderQuestion \/ DeepRenderEnd \/ DeepResults \/ AppRender

SpecUI == InitUI /\ [][NextUI]_vars

-----
(* Vocabulary of the properties.                                           *)

\* Number of lines of a block: one more than its newlines.
NumLines(b) == 1 + Cardinality({i \in 1..Len(b) : b[i] = NL})

LinesOf(b) == split(b, <<NL>>)

Blank(s) == \A i \in 1..Len(s) : s[i] \in Whitespace

\* t is s without its leading and trailing whitespace, otherwise verbatim.
IsTrimOf(t, s) ==
    \E i \in 0..Len(s) : \E j \in i..Len(s) :
        /\ t = SubSeq(s, i + 1, j)
        /\ Blank(SubSeq(s, 1, i)) /\ Blank(SubSeq(s, j + 1, Len(s)))
        /\ t # <<>> => (t[1] \notin Whitespace /\ t[Len(t)] \notin Whitespace)

Qualifies(b) == NumLines(b) >= 3

\* The blocks of the reply that format_quiz keeps, in reply order.
KeptDeep == SelectSeq(questions_deep(quiz_text), Qualifies)

QualifiesApp(b) == NumLines(b) >= 3 /\ ~Blank(b)

KeptApp == SelectSeq(questions_app(quiz_text), QualifiesApp)

Kept == IF file = "app.py" THEN KeptApp ELSE KeptDeep

Parsed == pc = "done"

DeepDone == file = "quiz_deep.py" /\ pc = "done"

AppDone == file = "app.py" /\ pc = "done"

C2_FourOptions ==
    Parsed =>
        /\ Len(records) = Len(Kept)
        /\ \A j \in 1..Len(Kept) :
               LET lines == LinesOf(Kept[j])
                   n == NumLines(Kept[j]) - 2
                   options == records[j].options
               IN  n <= 4 =>
                       /\ Len(options) = 4
                       /\ \A k \in 1..4 :
                              IF k <= n
                              THEN IsTrimOf(options[k], lines[k + 1])
                              ELSE options[k] = <<>>

\* One option line with blanks around it, three entries of padding.
C2_Witness ==
    /\ AppDone
    /\ quiz_text = <<"a", NL, SP, "a", SP, NL, "a">>
    /\ records[1].options = << <<"a">>, <<>>, <<>>, <<>> >>

\* The forms of first line named by C3, and the stem text X after them.
IsQuestionForm(line) ==
    /\ Len(line) >= 4
    /\ line[1] = "Question" /\ line[2] = SP
    /\ Span(Drop(line, 2), Digits) >= 1
    /\ LET r == Drop(line, 2 + Span(Drop(line, 2), Digits))
       IN  StartsWith(r, <<":", SP>>)

QuestionFormStem(line) == Drop(line, 4 + Span(Drop(line, 2), Digits))

IsDigitsForm(line) ==
    /\ Span(line, Digits) >= 1
    /\ StartsWith(Drop(line, Span(line, Digits)), <<":", SP>>)

DigitsFormStem(line) == Drop(line, 2 + Span(line, Digits))

IsBulletForm(line) == StartsWith(line, <<"-", SP>>)

BulletFormStem(line) == Drop(line, 2)

\* C3: a first line "Question <digits>: X", "<digits>: X" or "- X" gives
\* the question text X, trimmed.
C3_MarkerStripped ==
    Parsed =>
        \A j \in 1..Len(records) :
            LET line == LinesOf(Kept[j])[1]
                q == records[j].question
            IN  /\ IsQuestionForm(line) => IsTrimOf(q, QuestionFormStem(line))
                /\ IsDigitsForm(line) => IsTrimOf(q, DigitsFormStem(line))
                /\ IsBulletForm(line) => IsTrimOf(q, BulletFormStem(line))

\* C4: correct_answer is never the label text itself, and is the last line
\* with the label removed as a leading prefix only, trimmed.
C4_LabelStripped ==
    Parsed =>
        \A j \in 1..Len(records) :
            LET lines == LinesOf(Kept[j])
                last == lines[Len(lines)]
                value == IF StartsWith(last, CorrectAnswerLabel)
                         THEN Drop(last, 2) ELSE last
            IN  /\ records[j].correct_answer # <<"Correct Answer:">>
                /\ IsTrimOf(records[j].correct_answer, value)

\* The reply with every run of two or more newlines cut down to two.
RECURSIVE Collapse(_)
Collapse(s) ==
    IF s = <<>> THEN <<>>
    ELSE IF StartsWith(s, <<NL, NL, NL>>) THEN Collapse(Tail(s))
         ELSE <<Head(s)>> \o Collapse(Tail(s))

\* Every block between runs of two or more newlines is a question: at
\* least 3 lines, none of them blank.
WellFormed(s) ==
    \A i \in 1..Len(split(Collapse(s), BlankLine)) :
        LET lines == LinesOf(split(Collapse(s), BlankLine)[i])
        IN  /\ Len(lines) >= 3
            /\ \A k \in 1..Len(lines) : ~Blank(lines[k])

\* C5: well-formed blocks separated by three or more newlines parse to the
\* records of the same blocks separated by exactly two newlines.
C5_NewlineRuns ==
    /\ (DeepDone /\ WellFormed(quiz_text))
           => records = format_quiz_deep(Collapse(quiz_text))
    /\ (AppDone /\ WellFormed(quiz_text))
           => records = format_quiz_app(Collapse(quiz_text))

Oversized(b) == NumLines(b) > 6

NotOversized(b) == ~Oversized(b)

-----------------------------------------------------------------------------
(* Properties of the page, under SpecUI.                                   *)

\* The option that the page shows as picked for question i.
Selected(i) ==
    TheQuiz[i].options[IF i \in DOMAIN widget THEN widget[i] ELSE 1]

\* C7: in quiz_deep.py a failure of the backend call reaches the handler
\* as a failure, so the empty-quiz message is shown only after a backend
\* call that succeeded.
C7_FailureSurfaced ==
    file = "quiz_deep.py" => (InvalidQuiz \in shown => backend = "ok")

\* C8: a displayed score is the number of questions whose picked option
\* equals correct_answer, out of the number of records; app.py marks
\* exactly the other questions incorrect; in the example, picks "b) Blue"
\* and "b) Madrid" score 1/2 with question 2 incorrect.
C8_Score ==
    score # <<>> =>
        /\ Stored
        /\ LET n == Len(TheQuiz)
               right == {i \in 1..n : Selected(i) = TheQuiz[i].correct_answer}
           IN  /\ score = <<Cardinality(right), n>>
               /\ score[1] >= 0 /\ score[1] <= n
               /\ file = "app.py" => results = [i \in 1..n |-> i \in right]
               /\ (/\ quiz_text = ExampleReply
                   /\ n = 2
                   /\ Selected(1) = <<"b) Blue">>
                   /\ Selected(2) = <<"b) Madrid">>)
                      => score = <<1, 2>>

\* The example graded by app.py.
C8_Witness ==
    /\ file = "app.py"
    /\ quiz_text = ExampleReply /\ Stored /\ Len(TheQuiz) = 2
    /\ widget = <<2, 2>>
    /\ score = <<1, 2>>
    /\ results = <<TRUE, FALSE>>

GenerateStep == DeepGenerate \/ AppGenerate

\* C9: the stored quiz is unset or non-empty, and a Generate Quiz click
\* that ends in an empty parse or a backend failure shows an error and
\* leaves the stored quiz, answers and submitted flag as they were.
C9_NoEmptyQuiz ==
    /\ [](Stored => TheQuiz # <<>>)
    /\ [][(GenerateStep /\ ~(backend' = "ok" /\ records' # <<>>))
              => /\ shown' \cap {InvalidQuiz, ErrorOccurred} # {}
                 /\ Success \notin shown'
                 /\ UNCHANGED session_vars]_vars

\* A submitted quiz is still there after a generation that parsed empty.
C9_Witness ==
    /\ Stored /\ quiz_submitted
    /\ backend = "ok" /\ records = <<>> /\ InvalidQuiz \in shown
    /\ pc = "render"

\* C10: in quiz_deep.py a successful generation leaves user_answers empty
\* and quiz_submitted false; no lookup raises; and whenever quiz_submitted
\* is true a non-empty quiz is stored and every question has a recorded
\* answer that is one of its options.
C10_AnswersMatchQuiz ==
    file = "quiz_deep.py" =>
        /\ ~crashed
        /\ (pc = "render" /\ loop_i = 1 /\ Success \in shown)
               => (user_answers = <<>> /\ ~quiz_submitted)
        /\ Stored => \A i \in 1..Len(TheQuiz) : ~IndexRaises(i)
        /\ quiz_submitted =>
               /\ Stored /\ TheQuiz # <<>>
               /\ \A i \in 1..Len(TheQuiz) :
                      /\ i \in DOMAIN user_answers
                      /\ user_answers[i] \in Range(TheQuiz[i].options)

\* The score of a submitted one-question quiz that replaced the example,
\* shown again after a generation that failed.
C10_Witness ==
    /\ file = "quiz_deep.py"
    /\ quiz_submitted /\ Stored /\ Len(TheQuiz) = 1
    /\ backend = "failed"
    /\ pc = "idle" /\ score = <<0, 1>>
    /\ user_answers = << <<"b) No">> >>
====
